---- MODULE Spec2Model ----
(***************************************************************************)
(* A model of go-errmgt: the structured error type ManagedError of the     *)
(* root package (src/errmgt.go, the "simple variant") and of package v1    *)
(* (src/v1/errmgt.go, the "richer variant"), together with the parts of    *)
(* the Go standard library they are built on (fmt verbs, errors.Is,        *)
(* errors.As, errors.New, fmt.Errorf with %w).                             *)
(*                                                                         *)
(* Go strings are sequences of one-character strings, so that formatting   *)
(* is computed character by character.  Errors live on a heap: an error    *)
(* value is a reference (an index into heap, 0 is the nil interface), and  *)
(* identity of errors is equality of references.                           *)
(***************************************************************************)
EXTENDS Integers, Sequences, FiniteSets, TLC

VARIABLES
    heap,     \* the error values allocated so far; heap[r] is the object r points to
    hist,     \* history: hist[r] is the constructor call that made r, then the
              \* mutator calls made on r (kept only while logging)
    logging,  \* whether mutator calls are appended to hist (fixed by Init)
    ret       \* the last call made and what it returned

vars == <<heap, hist, logging, ret>>

(***************************************************************************)
(* Bounds of the model.                                                    *)
(***************************************************************************)
CtorObjs == 2    \* errors allocated under SpecCtor
SimpleObjs == 2  \* errors allocated under SpecSimple
V1Objs == 2      \* errors allocated under SpecV1
ChainObjs == 3   \* errors allocated under SpecRetry, SpecGetContext, SpecIs
UnwrapObjs == 2  \* errors allocated under SpecUnwrap
ContextObjs == 1 \* errors allocated under SpecContext
ContextCalls == 4 \* WithContext calls made under SpecContext
LookupObjs == 2  \* errors allocated under SpecLookup
LiteralObjs == 2 \* errors allocated under SpecLiteral
MarshalObjs == 2 \* errors allocated under SpecMarshal
RenderObjs == 3  \* errors allocated under SpecRender
KindObjs == 3    \* errors allocated under SpecKind
AcyclicObjs == 2 \* errors allocated under SpecAcyclic
SetterObjs == 2  \* errors allocated under SpecSetters
SetterCalls == 2 \* mutator calls made under SpecSetters
MatchObjs == 3   \* errors allocated under SpecMatch
MatchCalls == 1  \* mutator calls made under SpecMatch

\* the error references of a heap; 0 is nil
nil == 0
Refs(h) == 1..Len(h)

(***************************************************************************)
(* String literals of the source, as character sequences.                  *)
(***************************************************************************)
S_ValidationError == <<"V","a","l","i","d","a","t","i","o","n","E","r","r","o","r">>
S_NotFoundError == <<"N","o","t","F","o","u","n","d","E","r","r","o","r">>
S_PermissionError == <<"P","e","r","m","i","s","s","i","o","n","E","r","r","o","r">>
S_InternalError == <<"I","n","t","e","r","n","a","l","E","r","r","o","r">>
S_ExternalError == <<"E","x","t","e","r","n","a","l","E","r","r","o","r">>
S_UnknownError == <<"U","n","k","n","o","w","n","E","r","r","o","r">>

\* the iota constants of the simple variant
ValidationError == 0
NotFoundError == 1
PermissionError == 2
InternalError == 3
ExternalError == 4

\* the string constants of v1
V1_ValidationError == <<"v","a","l","i","d","a","t","i","o","n">>
V1_BusinessError == <<"b","u","s","i","n","e","s","s">>
V1_SystemError == <<"s","y","s","t","e","m">>
V1_ExternalError == <<"e","x","t","e","r","n","a","l">>

\* ErrorType.String with the default branch taken only above the constants
ErrorType_String_negative(et) ==
    CASE et <= ValidationError -> S_ValidationError
      [] et = NotFoundError -> S_NotFoundError
      [] et = PermissionError -> S_PermissionError
      [] et = InternalError -> S_InternalError
      [] et = ExternalError -> S_ExternalError
      [] OTHER -> S_UnknownError

\* ErrorType.String of the simple variant
ErrorType_String(et) ==
    CASE et = ValidationError -> S_ValidationError
      [] et = NotFoundError -> S_NotFoundError
      [] et = PermissionError -> S_PermissionError
      [] et = InternalError -> S_InternalError
      [] et = ExternalError -> S_ExternalError
      [] OTHER -> S_UnknownError

(***************************************************************************)
(* Go values passed as interface{}: a dynamic type and a value.            *)
(***************************************************************************)
GoString(s) == [t |-> "string", v |-> s]
GoInt(n) == [t |-> "int", v |-> n]
GoError(r) == [t |-> "error", v |-> r]
GoErrorType(k) == [t |-> "errmgt.ErrorType", v |-> k]
GoV1ErrorType(s) == [t |-> "v1.ErrorType", v |-> s]

\* strconv-style decimal rendering of an integer
RECURSIVE Digits(_)
Digits(n) ==
    LET d == <<"0","1","2","3","4","5","6","7","8","9">>[(n % 10) + 1]
    IN IF n < 10 THEN <<d>> ELSE Digits(n \div 10) \o <<d>>

Itoa(n) == IF n < 0 THEN <<"-">> \o Digits(-n) ELSE Digits(n)

\* the type name fmt prints in a bad-verb or EXTRA note
TypeName(a) ==
    CASE a.t = "string" -> <<"s","t","r","i","n","g">>
      [] a.t = "int" -> <<"i","n","t">>
      [] OTHER -> <<"e","r","r","m","g","t",".","E","r","r","o","r","T","y","p","e">>

(***************************************************************************)
(* The heap objects.  Four dynamic types implement error here:             *)
(*   *errors.errorString  (errors.New, fmt.Errorf without %w)              *)
(*   *fmt.wrapError       (fmt.Errorf with one %w)                         *)
(*   *errmgt.ManagedError (the simple variant)                             *)
(*   *v1.ManagedError     (the richer variant)                             *)
(***************************************************************************)
T_errorString == "errorString"
T_wrapError == "wrapError"
T_ManagedError == "ManagedError"
T_V1ManagedError == "v1.ManagedError"

\* a Go map: nil (no container) or a container holding entries
NilMap == [isNil |-> TRUE, kv |-> <<>>]
MakeMap == [isNil |-> FALSE, kv |-> <<>>]

\* m[k] = v on a non-nil map
MapAssign(m, k, v) ==
    [isNil |-> FALSE,
     kv |-> [x \in (DOMAIN m.kv) \cup {k} |-> IF x = k THEN v ELSE m.kv[x]]]

\* value, exists := m[k]; reading a nil map is allowed and finds nothing
MapLookup(m, k) ==
    IF k \in DOMAIN m.kv
    THEN [value |-> m.kv[k], exists |-> TRUE]
    ELSE [value |-> GoError(nil), exists |-> FALSE]

\* errors.New(s)
errorString(s) == [tag |-> T_errorString, s |-> s]

\* &wrapError{msg, err}
wrapError(msg, err) == [tag |-> T_wrapError, msg |-> msg, err |-> err]

\* the struct of the simple variant
ManagedError(type, message, cause, context) ==
    [tag |-> T_ManagedError, Type |-> type, Message |-> message,
     Cause |-> cause, Context |-> context]

\* the struct of v1; fields a literal leaves out hold their zero values
V1_ManagedError(type, code, message, cause, context) ==
    [tag |-> T_V1ManagedError, Code |-> code, Message |-> message,
     Details |-> <<>>, Cause |-> cause, Context |-> context, Type |-> type,
     StatusCode |-> 0, Retryable |-> FALSE]

(***************************************************************************)
(* fmt: the verbs the library uses (%s %v %w) and %d, %% for templates     *)
(* handed to Wrapf.  A "%" is followed by its verb directly: flags, widths *)
(* and precisions are not drawn by any template of the model.              *)
(***************************************************************************)
F_Simple_Cause == <<"[","%","s","]"," ","%","s",":"," ","%","v">>
F_Simple == <<"[","%","s","]"," ","%","s">>
F_V1_Details == <<"[","%","s",":","%","s","]"," ","%","s",":"," ","%","s">>
F_V1 == <<"[","%","s",":","%","s","]"," ","%","s">>
F_Wrap == <<"%","s",":"," ","%","w">>

BadVerb(verb, inner) == <<"%","!",verb,"(">> \o inner \o <<")">>
S_nilAngle == <<"<","n","i","l",">">>
S_MISSING == <<"M","I","S","S","I","N","G">>
S_NOVERB == <<"%","!","(","N","O","V","E","R","B",")">>
S_EXTRA == <<"%","!","(","E","X","T","R","A"," ">>

RECURSIVE Error(_, _), PrintArg(_, _, _, _), DoPrintf(_, _, _, _, _, _), Extra(_, _, _)

\* Error rendering one level only: of a cause that is a ManagedError, its kind
\* and message without its own cause
ManagedError_Error_onelevel(h, me) ==
    LET own == DoPrintf(h, F_Simple, 1, <<GoErrorType(me.Type), GoString(me.Message)>>, 1, FALSE)
    IN IF me.Cause = nil THEN own
       ELSE IF h[me.Cause].tag = T_ManagedError
       THEN own \o <<":", " ">>
                \o DoPrintf(h, F_Simple, 1, <<GoErrorType(h[me.Cause].Type),
                                             GoString(h[me.Cause].Message)>>, 1, FALSE)
       ELSE own \o <<":", " ">> \o Error(h, me.Cause)

\* simple variant: (*ManagedError).Error
ManagedError_Error(h, me) ==
    IF me.Cause # nil
    THEN DoPrintf(h, F_Simple_Cause, 1,
                  <<GoErrorType(me.Type), GoString(me.Message), GoError(me.Cause)>>, 1, FALSE)
    ELSE DoPrintf(h, F_Simple, 1,
                  <<GoErrorType(me.Type), GoString(me.Message)>>, 1, FALSE)

\* v1 with the cause rendered when no details are set (the simple variant's policy)
V1_ManagedError_Error_cause(h, e) ==
    IF e.Details # <<>>
    THEN DoPrintf(h, F_V1_Details, 1,
                  <<GoV1ErrorType(e.Type), GoString(e.Code), GoString(e.Message),
                    GoString(e.Details)>>, 1, FALSE)
    ELSE IF e.Cause # nil
    THEN DoPrintf(h, F_V1 \o <<":"," ","%","v">>, 1,
                  <<GoV1ErrorType(e.Type), GoString(e.Code), GoString(e.Message),
                    GoError(e.Cause)>>, 1, FALSE)
    ELSE DoPrintf(h, F_V1, 1,
                  <<GoV1ErrorType(e.Type), GoString(e.Code), GoString(e.Message)>>, 1, FALSE)

\* v1: (*ManagedError).Error
V1_ManagedError_Error(h, e) ==
    IF e.Details # <<>>
    THEN DoPrintf(h, F_V1_Details, 1,
                  <<GoV1ErrorType(e.Type), GoString(e.Code), GoString(e.Message),
                    GoString(e.Details)>>, 1, FALSE)
    ELSE DoPrintf(h, F_V1, 1,
                  <<GoV1ErrorType(e.Type), GoString(e.Code), GoString(e.Message)>>, 1, FALSE)

\* err.Error() by dynamic type, err a non-nil reference
Error(h, r) ==
    CASE h[r].tag = T_errorString -> h[r].s
      [] h[r].tag = T_wrapError -> h[r].msg
      [] h[r].tag = T_ManagedError -> ManagedError_Error(h, h[r])
      [] h[r].tag = T_V1ManagedError -> V1_ManagedError_Error(h, h[r])

\* fmt's printArg with handleMethods: one operand under one verb
PrintArg(h, a, verb, wrapErrs) ==
    CASE a.t = "error" /\ a.v = nil ->
            IF verb = "v" THEN S_nilAngle ELSE BadVerb(verb, S_nilAngle)
      [] a.t = "error" /\ a.v # nil ->
            (CASE verb \in {"v", "s"} -> Error(h, a.v)
               [] verb = "w" /\ wrapErrs -> Error(h, a.v))
      [] a.t = "string" ->
            IF verb \in {"v", "s"} THEN a.v
            ELSE BadVerb(verb, TypeName(a) \o <<"=">> \o a.v)
      [] a.t = "int" ->
            IF verb \in {"v", "d"} THEN Itoa(a.v)
            ELSE BadVerb(verb, TypeName(a) \o <<"=">> \o Itoa(a.v))
      [] a.t = "errmgt.ErrorType" ->
            (CASE verb \in {"v", "s"} -> ErrorType_String(a.v)
               [] verb = "d" -> Itoa(a.v))
      [] a.t = "v1.ErrorType" ->
            IF verb \in {"v", "s"} THEN a.v
            ELSE BadVerb(verb, TypeName(a) \o <<"=">> \o a.v)

\* the operands left over when the format ends: "type=value, type=value"
Extra(h, args, a) ==
    TypeName(args[a]) \o <<"=">> \o PrintArg(h, args[a], "v", FALSE)
    \o (IF a < Len(args) THEN <<",", " ">> \o Extra(h, args, a + 1) ELSE <<>>)

\* fmt's doPrintf from position i of the format, a the next operand
DoPrintf(h, f, i, args, a, wrapErrs) ==
    IF i > Len(f)
    THEN IF a <= Len(args) THEN S_EXTRA \o Extra(h, args, a) \o <<")">> ELSE <<>>
    ELSE IF f[i] # "%"
    THEN <<f[i]>> \o DoPrintf(h, f, i + 1, args, a, wrapErrs)
    ELSE IF i = Len(f)
    THEN S_NOVERB \o DoPrintf(h, f, i + 1, args, a, wrapErrs)
    ELSE IF f[i + 1] = "%"
    THEN <<"%">> \o DoPrintf(h, f, i + 2, args, a, wrapErrs)
    ELSE IF a > Len(args)
    THEN BadVerb(f[i + 1], S_MISSING) \o DoPrintf(h, f, i + 2, args, a, wrapErrs)
    ELSE PrintArg(h, args[a], f[i + 1], wrapErrs)
         \o DoPrintf(h, f, i + 2, args, a + 1, wrapErrs)

\* fmt.Sprintf(format, args...)
Sprintf(h, format, args) == DoPrintf(h, format, 1, args, 1, FALSE)

\* fmt.Errorf("%s: %w", message, err): the text, and the wrapped operand
Errorf_Wrap(h, message, err) ==
    wrapError(DoPrintf(h, F_Wrap, 1, <<GoString(message), GoError(err)>>, 1, TRUE), err)

(***************************************************************************)
(* errors: the chain walk of the standard library.                         *)
(***************************************************************************)
\* whether the dynamic type has an Unwrap() error method
HasUnwrap(o) == o.tag \in {T_wrapError, T_ManagedError, T_V1ManagedError}

\* simple variant: (*ManagedError).Unwrap
ManagedError_Unwrap(me) == me.Cause

\* v1: (*ManagedError).Unwrap
V1_ManagedError_Unwrap(e) == e.Cause

\* x.Unwrap() by dynamic type
Unwrap(o) ==
    CASE o.tag = T_wrapError -> o.err
      [] o.tag = T_ManagedError -> ManagedError_Unwrap(o)
      [] o.tag = T_V1ManagedError -> V1_ManagedError_Unwrap(o)

\* errors.As(err, &managedErr), managedErr a *v1.ManagedError: the first error of
\* the chain of that type, nil when As reports false
RECURSIVE errors_As(_, _)
errors_As(h, err) ==
    IF err = nil THEN nil
    ELSE IF h[err].tag = T_V1ManagedError THEN err
    ELSE IF HasUnwrap(h[err]) THEN errors_As(h, Unwrap(h[err]))
    ELSE nil

RECURSIVE errors_Is(_, _, _), V1_ManagedError_Is(_, _, _)

\* Is looking at the target itself only (a type assertion instead of errors.As)
V1_ManagedError_Is_assert(h, e, target) ==
    IF target = nil THEN FALSE
    ELSE IF h[target].tag = T_V1ManagedError
    THEN h[e].Type = h[target].Type /\ h[e].Code = h[target].Code
    ELSE errors_Is(h, h[e].Cause, target)

\* Is comparing the message as well (full equality of the identifying texts)
V1_ManagedError_Is_message(h, e, target) ==
    IF target = nil THEN FALSE
    ELSE LET managedErr == errors_As(h, target)
         IN IF managedErr # nil
            THEN /\ h[e].Type = h[managedErr].Type
                 /\ h[e].Code = h[managedErr].Code
                 /\ h[e].Message = h[managedErr].Message
            ELSE errors_Is(h, h[e].Cause, target)

\* v1: (*ManagedError).Is, e a reference to the receiver
V1_ManagedError_Is(h, e, target) ==
    IF target = nil THEN FALSE
    ELSE LET managedErr == errors_As(h, target)
         IN IF managedErr # nil
            THEN h[e].Type = h[managedErr].Type /\ h[e].Code = h[managedErr].Code
            ELSE errors_Is(h, h[e].Cause, target)

\* errors.Is(err, target); every error type here is a pointer, hence comparable
errors_Is(h, err, target) ==
    IF err = nil \/ target = nil THEN err = target
    ELSE IF err = target THEN TRUE
    ELSE IF h[err].tag = T_V1ManagedError /\ V1_ManagedError_Is(h, err, target) THEN TRUE
    ELSE IF HasUnwrap(h[err]) /\ Unwrap(h[err]) # nil
    THEN errors_Is(h, Unwrap(h[err]), target)
    ELSE FALSE

(***************************************************************************)
(* The simple variant (src/errmgt.go).                                     *)
(***************************************************************************)
\* New leaving the context map unallocated
New_nocontext(errorType, message) == ManagedError(errorType, message, nil, NilMap)

New(errorType, message) == ManagedError(errorType, message, nil, MakeMap)

\* Wrap that does not keep err
Wrap_text(err, errorType, message) == ManagedError(errorType, message, nil, MakeMap)

Wrap(err, errorType, message) == ManagedError(errorType, message, err, MakeMap)

\* WithContext keeping the value a key already has
WithContext_keep(me, key, value) ==
    IF me.Context.isNil
    THEN [panic |-> TRUE, me |-> me]
    ELSE IF key \in DOMAIN me.Context.kv
    THEN [panic |-> FALSE, me |-> me]
    ELSE [panic |-> FALSE, me |-> [me EXCEPT !.Context = MapAssign(me.Context, key, value)]]

\* me.Context[key] = value; assignment to an entry of a nil map panics
WithContext(me, key, value) ==
    IF me.Context.isNil
    THEN [panic |-> TRUE, me |-> me]
    ELSE [panic |-> FALSE, me |-> [me EXCEPT !.Context = MapAssign(me.Context, key, value)]]

GetContext(me, key) == MapLookup(me.Context, key)

IsType(me, errorType) == me.Type = errorType

(***************************************************************************)
(* v1 (src/v1/errmgt.go).                                                  *)
(***************************************************************************)
\* NewError losing the message
NewError_nomessage(errType, code, message) == V1_ManagedError(errType, code, <<>>, nil, MakeMap)

NewError(errType, code, message) == V1_ManagedError(errType, code, message, nil, MakeMap)

\* NewErrorWithCause leaving the context map unallocated
NewErrorWithCause_nocontext(errType, code, message, cause) ==
    V1_ManagedError(errType, code, message, cause, NilMap)

\* NewErrorWithCause dropping the cause
NewErrorWithCause_nocause(errType, code, message, cause) ==
    V1_ManagedError(errType, code, message, nil, MakeMap)

NewErrorWithCause(errType, code, message, cause) ==
    V1_ManagedError(errType, code, message, cause, MakeMap)

WithDetails(e, details) == [e EXCEPT !.Details = details]

V1_WithContext(e, key, value) ==
    LET c == IF e.Context.isNil THEN MakeMap ELSE e.Context
    IN [e EXCEPT !.Context = MapAssign(c, key, value)]

WithRetryable(e, retryable) == [e EXCEPT !.Retryable = retryable]

\* WithStatusCode marking server-side codes retryable as well
WithStatusCode_retryable(e, code) ==
    [e EXCEPT !.StatusCode = code, !.Retryable = (code >= 500)]

WithStatusCode(e, code) == [e EXCEPT !.StatusCode = code]

\* IsType answering for any Managed Error of the chain, not only the first
RECURSIVE V1_IsType_any(_, _, _)
V1_IsType_any(h, err, errType) ==
    LET managedErr == errors_As(h, err)
    IN IF managedErr # nil
       THEN h[managedErr].Type = errType \/ V1_IsType_any(h, h[managedErr].Cause, errType)
       ELSE FALSE

V1_IsType(h, err, errType) ==
    LET managedErr == errors_As(h, err)
    IN IF managedErr # nil THEN h[managedErr].Type = errType ELSE FALSE

\* IsRetryable by a type assertion on err itself, without the chain walk
IsRetryable_assert(h, err) ==
    IF err # nil /\ h[err].tag = T_V1ManagedError THEN h[err].Retryable ELSE FALSE

IsRetryable(h, err) ==
    LET managedErr == errors_As(h, err)
    IN IF managedErr # nil THEN h[managedErr].Retryable ELSE FALSE

\* GetContext answering an empty mapping when no managed error is found
V1_GetContext_empty(h, err) ==
    LET managedErr == errors_As(h, err)
    IN IF managedErr # nil THEN h[managedErr].Context ELSE MakeMap

V1_GetContext(h, err) ==
    LET managedErr == errors_As(h, err)
    IN IF managedErr # nil THEN h[managedErr].Context ELSE NilMap

V1_Wrap(h, err, message) == Errorf_Wrap(h, message, err)

\* Wrapf handing the template on as the message, without formatting it
Wrapf_unformatted(h, err, format, args) == Errorf_Wrap(h, format, err)

Wrapf(h, err, format, args) == Errorf_Wrap(h, Sprintf(h, format, args), err)

(***************************************************************************)
(* encoding/json over the struct tags of v1's ManagedError: a field tagged *)
(* "-" is skipped, a field tagged omitempty is skipped when it holds the   *)
(* empty value of its kind, every other field is emitted under its key,    *)
(* in the order of the struct.                                             *)
(***************************************************************************)
\* the tags with details emitted always
V1_JSONFields_details ==
    <<[field |-> "Code", key |-> "code", omitempty |-> FALSE, skip |-> FALSE],
      [field |-> "Message", key |-> "message", omitempty |-> FALSE, skip |-> FALSE],
      [field |-> "Details", key |-> "details", omitempty |-> FALSE, skip |-> FALSE],
      [field |-> "Cause", key |-> "-", omitempty |-> FALSE, skip |-> TRUE],
      [field |-> "Context", key |-> "context", omitempty |-> TRUE, skip |-> FALSE],
      [field |-> "Type", key |-> "type", omitempty |-> FALSE, skip |-> FALSE],
      [field |-> "StatusCode", key |-> "status_code", omitempty |-> TRUE, skip |-> FALSE],
      [field |-> "Retryable", key |-> "retryable", omitempty |-> FALSE, skip |-> FALSE]>>

V1_JSONFields ==
    <<[field |-> "Code", key |-> "code", omitempty |-> FALSE, skip |-> FALSE],
      [field |-> "Message", key |-> "message", omitempty |-> FALSE, skip |-> FALSE],
      [field |-> "Details", key |-> "details", omitempty |-> TRUE, skip |-> FALSE],
      [field |-> "Cause", key |-> "-", omitempty |-> FALSE, skip |-> TRUE],
      [field |-> "Context", key |-> "context", omitempty |-> TRUE, skip |-> FALSE],
      [field |-> "Type", key |-> "type", omitempty |-> FALSE, skip |-> FALSE],
      [field |-> "StatusCode", key |-> "status_code", omitempty |-> TRUE, skip |-> FALSE],
      [field |-> "Retryable", key |-> "retryable", omitempty |-> FALSE, skip |-> FALSE]>>

\* json's isEmptyValue: a string or map of length 0, the integer 0, false
V1_IsEmptyValue(e, field) ==
    CASE field = "Context" -> DOMAIN e.Context.kv = {}
      [] field = "StatusCode" -> e.StatusCode = 0
      [] field = "Retryable" -> e.Retryable = FALSE
      [] OTHER -> e[field] = <<>>

\* json.Marshal(e): the members of the object written, in order
V1_Marshal(e) ==
    LET emitted(f) == ~f.skip /\ ~(f.omitempty /\ V1_IsEmptyValue(e, f.field))
        member(f) == [field |-> f.field, key |-> f.key, value |-> e[f.field]]
        fs == SelectSeq(V1_JSONFields, emitted)
    IN [i \in 1..Len(fs) |-> member(fs[i])]

(***************************************************************************)
(* The state machine: a caller that allocates errors, applies the fluent   *)
(* mutators and inspects the results.  Each action is one call.            *)
(***************************************************************************)
NoCall == [call |-> [op |-> "none"], val |-> nil, panic |-> FALSE]

Init ==
    /\ heap = <<>>
    /\ hist = <<>>
    /\ logging = FALSE
    /\ ret = NoCall

InitLogging ==
    /\ heap = <<>>
    /\ hist = <<>>
    /\ logging = TRUE
    /\ ret = NoCall

\* a constructor returned the new object o
Alloc(o, call) ==
    /\ heap' = Append(heap, o)
    /\ hist' = Append(hist, <<call>>)
    /\ ret' = [call |-> call, val |-> Len(heap) + 1, panic |-> FALSE]
    /\ UNCHANGED logging

\* a mutator changed the object r points to into o and returned r
Mutate(r, o, call) ==
    /\ heap' = [heap EXCEPT ![r] = o]
    /\ hist' = IF logging THEN [hist EXCEPT ![r] = Append(@, call)] ELSE hist
    /\ ret' = [call |-> call, val |-> r, panic |-> FALSE]
    /\ UNCHANGED logging

\* a call that only reads returned val
Query(call, val) ==
    /\ ret' = [call |-> call, val |-> val, panic |-> FALSE]
    /\ UNCHANGED <<heap, hist, logging>>

\* a call that panicked before changing anything
Panic(call) ==
    /\ ret' = [call |-> call, val |-> nil, panic |-> TRUE]
    /\ UNCHANGED <<heap, hist, logging>>

\* the number of mutator calls logged so far
RECURSIVE CallsFrom(_, _)
CallsFrom(hs, r) == IF r > Len(hs) THEN 0 ELSE (Len(hs[r]) - 1) + CallsFrom(hs, r + 1)
Calls == CallsFrom(hist, 1)

IsSimple(r) == r \in Refs(heap) /\ heap[r].tag = T_ManagedError
IsV1(r) == r \in Refs(heap) /\ heap[r].tag = T_V1ManagedError

\* ---- the standard library ----
Call_errors_New(s) ==
    Alloc(errorString(s), [op |-> "errors.New", text |-> s])

Call_errors_Is(err, target) ==
    Query([op |-> "errors.Is", err |-> err, target |-> target], errors_Is(heap, err, target))

Call_Error(r) ==
    /\ r \in Refs(heap)
    /\ Query([op |-> "Error", recv |-> r], Error(heap, r))

Call_Unwrap(r) ==
    /\ r \in Refs(heap)
    /\ HasUnwrap(heap[r])
    /\ Query([op |-> "Unwrap", recv |-> r], Unwrap(heap[r]))

\* ---- the simple variant ----
Call_New(errorType, message) ==
    Alloc(New(errorType, message),
          [op |-> "New", errorType |-> errorType, message |-> message])

\* Wrap handing the new error to itself as its cause
Call_Wrap_self(err, errorType, message) ==
    Alloc(Wrap(Len(heap) + 1, errorType, message),
          [op |-> "Wrap", err |-> err, errorType |-> errorType, message |-> message])

Call_Wrap(err, errorType, message) ==
    Alloc(Wrap(err, errorType, message),
          [op |-> "Wrap", err |-> err, errorType |-> errorType, message |-> message])

Call_WithContext(r, key, value) ==
    /\ IsSimple(r)
    /\ LET call == [op |-> "WithContext", recv |-> r, key |-> key, value |-> value]
           res == WithContext(heap[r], key, value)
       IN IF res.panic THEN Panic(call) ELSE Mutate(r, res.me, call)

Call_GetContext(r, key) ==
    /\ IsSimple(r)
    /\ Query([op |-> "GetContext", recv |-> r, key |-> key], GetContext(heap[r], key))

Call_IsType(r, errorType) ==
    /\ IsSimple(r)
    /\ Query([op |-> "IsType", recv |-> r, errorType |-> errorType],
             IsType(heap[r], errorType))

\* &ManagedError{Type: errorType, Message: message}: the fields are exported, so
\* a caller can build the struct itself; fields left out hold their zero values
Call_Literal(errorType, message) ==
    Alloc(ManagedError(errorType, message, nil, NilMap),
          [op |-> "&ManagedError", errorType |-> errorType, message |-> message])

\* &v1.ManagedError{Type: errType, Code: code, Message: message}
Call_V1_Literal(errType, code, message) ==
    Alloc(V1_ManagedError(errType, code, message, nil, NilMap),
          [op |-> "&v1.ManagedError", errType |-> errType, code |-> code,
           message |-> message])

\* ---- v1 ----
Call_NewError(errType, code, message) ==
    Alloc(NewError(errType, code, message),
          [op |-> "NewError", errType |-> errType, code |-> code, message |-> message])

Call_NewErrorWithCause(errType, code, message, cause) ==
    Alloc(NewErrorWithCause(errType, code, message, cause),
          [op |-> "NewErrorWithCause", errType |-> errType, code |-> code,
           message |-> message, cause |-> cause])

Call_WithDetails(r, details) ==
    /\ IsV1(r)
    /\ Mutate(r, WithDetails(heap[r], details),
              [op |-> "WithDetails", recv |-> r, details |-> details])

Call_V1_WithContext(r, key, value) ==
    /\ IsV1(r)
    /\ Mutate(r, V1_WithContext(heap[r], key, value),
              [op |-> "WithContext", recv |-> r, key |-> key, value |-> value])

Call_WithRetryable(r, retryable) ==
    /\ IsV1(r)
    /\ Mutate(r, WithRetryable(heap[r], retryable),
              [op |-> "WithRetryable", recv |-> r, retryable |-> retryable])

Call_WithStatusCode(r, code) ==
    /\ IsV1(r)
    /\ Mutate(r, WithStatusCode(heap[r], code),
              [op |-> "WithStatusCode", recv |-> r, code |-> code])

Call_V1_IsType(err, errType) ==
    Query([op |-> "v1.IsType", err |-> err, errType |-> errType],
          V1_IsType(heap, err, errType))

Call_IsRetryable(err) ==
    Query([op |-> "IsRetryable", err |-> err], IsRetryable(heap, err))

Call_V1_GetContext(err) ==
    Query([op |-> "v1.GetContext", err |-> err], V1_GetContext(heap, err))

Call_Is(r, target) ==
    /\ IsV1(r)
    /\ Query([op |-> "Is", recv |-> r, target |-> target],
             V1_ManagedError_Is(heap, r, target))

\* json.Marshal(e) / json.NewEncoder(w).Encode(e) on a *v1.ManagedError
Call_Marshal(r) ==
    /\ IsV1(r)
    /\ Query([op |-> "json.Marshal", v |-> r], V1_Marshal(heap[r]))

Call_V1_Wrap(err, message) ==
    Alloc(V1_Wrap(heap, err, message),
          [op |-> "v1.Wrap", err |-> err, message |-> message])

Call_Wrapf(err, format, args) ==
    Alloc(Wrapf(heap, err, format, args),
          [op |-> "Wrapf", err |-> err, format |-> format, args |-> args])

(***************************************************************************)
(* SpecSimple: rendering in the simple variant.  Kinds range over the five *)
(* constants and integers on both sides of them; one of the messages holds *)
(* a verb, so that a message taken for a format shows.                     *)
(***************************************************************************)
Kinds == {-1, ValidationError, NotFoundError, PermissionError, InternalError,
          ExternalError, 5}
SimpleArgs == {<<k, <<"m">>>> : k \in Kinds} \cup {<<ValidationError, <<"%","v">>>>}
PlainTexts == {<<"o">>}
SimpleKeys == {<<"k">>}
SimpleValues == {GoInt(1)}

NextSimple ==
    \/ \E s \in PlainTexts : Len(heap) < SimpleObjs /\ Call_errors_New(s)
    \/ \E a \in SimpleArgs : Len(heap) < SimpleObjs /\ Call_New(a[1], a[2])
    \/ \E c \in Refs(heap), a \in SimpleArgs :
          Len(heap) < SimpleObjs /\ Call_Wrap(c, a[1], a[2])
    \/ \E r \in Refs(heap), k \in SimpleKeys, v \in SimpleValues : Call_WithContext(r, k, v)
    \/ \E r \in Refs(heap) : Call_Error(r)

SpecSimple == Init /\ [][NextSimple]_vars

(***************************************************************************)
(* C1.  Simple variant: New(k, m).Error() is "[" name(k) "] " m and        *)
(* Wrap(c, k, m).Error() with c non-nil is "[" name(k) "] " m ": "         *)
(* c.Error(), name(k) being the display name of the five kinds and         *)
(* "UnknownError" for any other integer; context entries never change the  *)
(* rendered string.                                                        *)
(***************************************************************************)
C1_Name(k) ==
    IF k = 0 THEN S_ValidationError
    ELSE IF k = 1 THEN S_NotFoundError
    ELSE IF k = 2 THEN S_PermissionError
    ELSE IF k = 3 THEN S_InternalError
    ELSE IF k = 4 THEN S_ExternalError
    ELSE S_UnknownError

C1_Expected(r) ==
    LET made == hist[r][1]
        head == <<"[">> \o C1_Name(made.errorType) \o <<"]", " ">> \o made.message
    IN IF made.op = "Wrap" /\ made.err # nil
       THEN head \o <<":", " ">> \o Error(heap, made.err)
       ELSE head

C1_SimpleRendering ==
    /\ \A r \in Refs(heap) : IsSimple(r) => Error(heap, r) = C1_Expected(r)
    /\ (ret.call.op = "Error" /\ IsSimple(ret.call.recv))
          => ret.val = C1_Expected(ret.call.recv)

\* Error() was called on a wrapping error of an undefined kind that carries context
C1_Witness ==
    /\ ret.call.op = "Error"
    /\ IsSimple(ret.call.recv)
    /\ heap[ret.call.recv].Cause # nil
    /\ heap[ret.call.recv].Type \notin 0..4
    /\ DOMAIN heap[ret.call.recv].Context.kv # {}

(***************************************************************************)
(* SpecV1: rendering in v1 and the wrapping helpers.  The v1 kind is an    *)
(* open string type; codes and details may be empty; templates for Wrapf   *)
(* come with operands that fit them and with operands that do not.         *)
(***************************************************************************)
V1Args == {<<V1_ValidationError, <<"c">>, <<"m">>>>,
           <<V1_SystemError, <<>>, <<"m">>>>,
           <<V1_BusinessError, <<"c">>, <<"%","s">>>>,
           <<<<"x">>, <<"c">>, <<>>>>}
V1Details == {<<>>, <<"d">>}
WrapMsgs == {<<"w">>, <<"%","d">>}
WrapfArgs == {<<<<"a","%","s">>, <<GoString(<<"x">>)>>>>,
              <<<<"%","d","%","%">>, <<GoInt(12)>>>>,
              <<<<"%","v","%","s">>, <<GoInt(-3), GoString(<<"%","s">>)>>>>,
              <<<<"%","s">>, <<>>>>,
              <<<<"t">>, <<GoString(<<"x">>)>>>>,
              <<<<"%","d">>, <<GoString(<<"x">>)>>>>,
              <<<<"%">>, <<>>>>}

NextV1 ==
    \/ \E s \in PlainTexts : Len(heap) < V1Objs /\ Call_errors_New(s)
    \/ \E a \in V1Args : Len(heap) < V1Objs /\ Call_NewError(a[1], a[2], a[3])
    \/ \E c \in Refs(heap), a \in V1Args :
          Len(heap) < V1Objs /\ Call_NewErrorWithCause(a[1], a[2], a[3], c)
    \/ \E r \in Refs(heap), d \in V1Details : Call_WithDetails(r, d)
    \/ \E e \in Refs(heap), m \in WrapMsgs : Len(heap) < V1Objs /\ Call_V1_Wrap(e, m)
    \/ \E e \in Refs(heap), fa \in WrapfArgs :
          Len(heap) < V1Objs /\ Call_Wrapf(e, fa[1], fa[2])
    \/ \E r \in Refs(heap) : Call_Error(r)
    \/ \E r \in Refs(heap) : Call_Unwrap(r)

SpecV1 == Init /\ [][NextV1]_vars

(***************************************************************************)
(* C2.  v1: e.Error() is "[" type ":" code "] " message ": " details when  *)
(* details is non-empty and "[" type ":" code "] " message otherwise; the  *)
(* cause's text never appears, with or without details.                    *)
(***************************************************************************)
C2_Expected(e) ==
    LET head == <<"[">> \o e.Type \o <<":">> \o e.Code \o <<"]", " ">> \o e.Message
    IN IF e.Details # <<>> THEN head \o <<":", " ">> \o e.Details ELSE head

C2_V1Rendering ==
    /\ \A r \in Refs(heap) : IsV1(r) => Error(heap, r) = C2_Expected(heap[r])
    /\ (ret.call.op = "Error" /\ IsV1(ret.call.recv))
          => ret.val = C2_Expected(heap[ret.call.recv])

\* Error() was called on an error that has a cause and no details
C2_Witness ==
    /\ ret.call.op = "Error"
    /\ IsV1(ret.call.recv)
    /\ heap[ret.call.recv].Cause # nil
    /\ heap[ret.call.recv].Details = <<>>

(***************************************************************************)
(* C9.  v1 wrapping helpers: for non-nil err, Wrap(err, m).Error() is      *)
(* m ": " err.Error() and the chain walk from the result reaches err, its  *)
(* immediate cause; Wrapf(err, template, args...) gives the rendering and  *)
(* chain of Wrap(err, m), m the template with its operands substituted in  *)
(* order.  Stated of the value a call returns, when it returns.            *)
(***************************************************************************)
\* the text an operand stands for
C9_Text(a) == IF a.t = "int" THEN Itoa(a.v) ELSE a.v

\* whether a verb takes the operand
C9_Fits(verb, a) ==
    \/ verb = "v"
    \/ verb = "s" /\ a.t = "string"
    \/ verb = "d" /\ a.t = "int"

\* the template from position i on, each verb replaced by the next operand
RECURSIVE C9_Subst(_, _, _, _)
C9_Subst(f, i, args, a) ==
    IF i > Len(f) THEN <<>>
    ELSE IF f[i] = "%" /\ i < Len(f) /\ f[i + 1] = "%"
    THEN <<"%">> \o C9_Subst(f, i + 2, args, a)
    ELSE IF f[i] = "%" /\ i < Len(f)
    THEN C9_Text(args[a]) \o C9_Subst(f, i + 2, args, a + 1)
    ELSE <<f[i]>> \o C9_Subst(f, i + 1, args, a)

\* whether the template's verbs are matched one to one by fitting operands
RECURSIVE C9_WellFormed(_, _, _, _)
C9_WellFormed(f, i, args, a) ==
    IF i > Len(f) THEN a = Len(args) + 1
    ELSE IF f[i] # "%" THEN C9_WellFormed(f, i + 1, args, a)
    ELSE IF i = Len(f) THEN FALSE
    ELSE IF f[i + 1] = "%" THEN C9_WellFormed(f, i + 2, args, a)
    ELSE /\ a <= Len(args)
         /\ C9_Fits(f[i + 1], args[a])
         /\ C9_WellFormed(f, i + 2, args, a + 1)

C9_WrapResult(r, m, err) ==
    /\ Error(heap, r) = m \o <<":", " ">> \o Error(heap, err)
    /\ HasUnwrap(heap[r])
    /\ Unwrap(heap[r]) = err
    /\ errors_Is(heap, r, err)

C9_WrappingHelpers ==
    /\ (ret.call.op = "v1.Wrap" /\ ret.call.err # nil)
          => C9_WrapResult(ret.val, ret.call.message, ret.call.err)
    /\ (ret.call.op = "Wrapf" /\ ret.call.err # nil)
          => /\ heap[ret.val] =
                   V1_Wrap(heap, ret.call.err, Sprintf(heap, ret.call.format, ret.call.args))
             /\ C9_WellFormed(ret.call.format, 1, ret.call.args, 1)
                   => C9_WrapResult(ret.val,
                                    C9_Subst(ret.call.format, 1, ret.call.args, 1),
                                    ret.call.err)

\* Wrapf returned for a template with two verbs and two operands, around a
\* v1 error
C9_Witness ==
    /\ ret.call.op = "Wrapf"
    /\ ret.call.err # nil
    /\ IsV1(ret.call.err)
    /\ Len(ret.call.args) = 2
    /\ C9_WellFormed(ret.call.format, 1, ret.call.args, 1)

(***************************************************************************)
(* Cause chains that mix plain errors, both kinds of ManagedError and      *)
(* fmt.Errorf wrappers (BuildChain), and one specification for each of the *)
(* chain-walking queries: the constructors, the mutator the query reads    *)
(* and the query.                                                          *)
(***************************************************************************)
ChainArgs == {<<V1_ValidationError, <<"c">>, <<"m">>>>,
              <<V1_SystemError, <<"d">>, <<"m">>>>}
ChainKeys == {<<"k">>}
ChainValues == {<<"v">>}
ChainTemplates == {<<<<"a","%","s">>, <<GoString(<<"x">>)>>>>}

BuildChain ==
    \/ \E s \in PlainTexts : Len(heap) < ChainObjs /\ Call_errors_New(s)
    \/ \E c \in Refs(heap) : Len(heap) < ChainObjs /\ Call_Wrap(c, InternalError, <<"m">>)
    \/ \E a \in ChainArgs : Len(heap) < ChainObjs /\ Call_NewError(a[1], a[2], a[3])
    \/ \E c \in Refs(heap), a \in ChainArgs :
          Len(heap) < ChainObjs /\ Call_NewErrorWithCause(a[1], a[2], a[3], c)
    \/ \E e \in Refs(heap) : Len(heap) < ChainObjs /\ Call_V1_Wrap(e, <<"w">>)
    \/ \E e \in Refs(heap), fa \in ChainTemplates :
          Len(heap) < ChainObjs /\ Call_Wrapf(e, fa[1], fa[2])

NextRetry ==
    \/ BuildChain
    \/ \E r \in Refs(heap), b \in BOOLEAN : Call_WithRetryable(r, b)
    \/ \E e \in Refs(heap) \cup {nil} : Call_IsRetryable(e)

SpecRetry == Init /\ [][NextRetry]_vars

NextGetContext ==
    \/ BuildChain
    \/ \E r \in Refs(heap), k \in ChainKeys, v \in ChainValues : Call_V1_WithContext(r, k, v)
    \/ \E e \in Refs(heap) \cup {nil} : Call_V1_GetContext(e)

SpecGetContext == Init /\ [][NextGetContext]_vars

NextIs ==
    \/ BuildChain
    \/ \E e \in Refs(heap) \cup {nil}, t \in Refs(heap) \cup {nil} : Call_errors_Is(e, t)

SpecIs == Init /\ [][NextIs]_vars

\* the cause an error was constructed around, nil when it was given none
CauseGiven(r) ==
    LET made == hist[r][1]
    IN IF made.op \in {"Wrap", "v1.Wrap", "Wrapf"} THEN made.err
       ELSE IF made.op = "NewErrorWithCause" THEN made.cause
       ELSE nil

\* the chain of err as constructed: err, the cause it was given, and so on
RECURSIVE ChainGiven(_)
ChainGiven(err) == IF err = nil THEN <<>> ELSE <<err>> \o ChainGiven(CauseGiven(err))

\* the v1 Managed Errors of the chain, outermost first
ManagedIn(err) == SelectSeq(ChainGiven(err), IsV1)

(***************************************************************************)
(* C5.  IsRetryable(err) is false when the chain of err holds no Managed   *)
(* Error (nil included) and otherwise the retryable flag of the outermost  *)
(* Managed Error of the chain, through Wrap/Wrapf layers; a non-retryable  *)
(* Managed Error around a retryable one is not retryable, and a freshly    *)
(* created error is not retryable.                                         *)
(***************************************************************************)
C5_Expected(err) ==
    IF ManagedIn(err) = <<>> THEN FALSE ELSE heap[Head(ManagedIn(err))].Retryable

C5_IsRetryable ==
    /\ \A err \in Refs(heap) \cup {nil} : IsRetryable(heap, err) = C5_Expected(err)
    /\ ret.call.op = "IsRetryable" => ret.val = C5_Expected(ret.call.err)
    /\ ret.call.op \in {"NewError", "NewErrorWithCause"} => ~IsRetryable(heap, ret.val)

\* IsRetryable answered false for a wrapper around a non-retryable Managed Error
\* whose cause is a retryable Managed Error
C5_Witness ==
    /\ ret.call.op = "IsRetryable"
    /\ ret.call.err # nil
    /\ ~IsV1(ret.call.err)
    /\ Len(ManagedIn(ret.call.err)) = 2
    /\ ~heap[ManagedIn(ret.call.err)[1]].Retryable
    /\ heap[ManagedIn(ret.call.err)[2]].Retryable
    /\ ret.val = FALSE

(***************************************************************************)
(* C6.  GetContext(err) is absent (nil) exactly when the chain of err      *)
(* holds no Managed Error; otherwise it is the context of the outermost    *)
(* Managed Error, a non-nil mapping even when it has no entries.           *)
(***************************************************************************)
C6_Holds(err, got) ==
    IF ManagedIn(err) = <<>>
    THEN got.isNil
    ELSE ~got.isNil /\ got = heap[Head(ManagedIn(err))].Context

C6_GetContext ==
    /\ \A err \in Refs(heap) \cup {nil} : C6_Holds(err, V1_GetContext(heap, err))
    /\ ret.call.op = "v1.GetContext" => C6_Holds(ret.call.err, ret.val)

\* GetContext returned an empty, non-nil mapping: that of an outer Managed Error
\* without entries whose cause is a Managed Error with an entry
C6_Witness ==
    /\ ret.call.op = "v1.GetContext"
    /\ Len(ManagedIn(ret.call.err)) = 2
    /\ DOMAIN heap[ManagedIn(ret.call.err)[2]].Context.kv # {}
    /\ ret.val = MakeMap

(***************************************************************************)
(* C8.  For every non-nil opaque error c and every error e built around c  *)
(* by nesting the cause-taking constructors (simple Wrap, v1               *)
(* NewErrorWithCause) and v1 Wrap/Wrapf, errors.Is(e, c) is true, also     *)
(* when a Managed Error of the chain has an Is method answering false for  *)
(* c and when c itself wraps a Managed Error of another kind or code.      *)
(***************************************************************************)
IsOpaque(r) == r \in Refs(heap) /\ heap[r].tag \in {T_errorString, T_wrapError}

InChain(c, e) == \E i \in 1..Len(ChainGiven(e)) : ChainGiven(e)[i] = c

C8_ChainReachesCause ==
    /\ \A e \in Refs(heap), c \in Refs(heap) :
          (IsOpaque(c) /\ InChain(c, e)) => errors_Is(heap, e, c)
    /\ (ret.call.op = "errors.Is" /\ IsOpaque(ret.call.target)
           /\ InChain(ret.call.target, ret.call.err)) => ret.val = TRUE

\* errors.Is(e, c) was asked of a v1 Managed Error e whose Is method answers false
\* for c, c being a wrapper around a Managed Error of another kind
C8_Witness ==
    /\ ret.call.op = "errors.Is"
    /\ IsV1(ret.call.err)
    /\ IsOpaque(ret.call.target)
    /\ ret.call.target # ret.call.err
    /\ InChain(ret.call.target, ret.call.err)
    /\ ManagedIn(ret.call.target) # <<>>
    /\ ~V1_ManagedError_Is(heap, ret.call.err, ret.call.target)
    /\ ret.val = TRUE

(***************************************************************************)
(* SpecMatch: v1 Managed Errors that agree or differ in kind, code and     *)
(* message, with and without a cause, each mutator applied, compared by    *)
(* the Is method.                                                          *)
(***************************************************************************)
MatchArgs == {<<V1_ValidationError, <<"c">>, <<"m">>>>,
              <<V1_ValidationError, <<"d">>, <<"m">>>>,
              <<V1_BusinessError, <<"c">>, <<"m">>>>}
MatchStatus == {400}

\* the comparison is asked of the error built last; the formulas speak of all pairs
NextMatch ==
    \/ \E a \in MatchArgs : Len(heap) < MatchObjs /\ Call_NewError(a[1], a[2], a[3])
    \/ \E c \in Refs(heap) :
          Len(heap) < MatchObjs
          /\ Call_NewErrorWithCause(V1_ValidationError, <<"c">>, <<"n">>, c)
    \/ \E r \in Refs(heap) : Calls < MatchCalls /\ Call_WithDetails(r, <<"d">>)
    \/ \E r \in Refs(heap), k \in ChainKeys, v \in ChainValues :
          Calls < MatchCalls /\ Call_V1_WithContext(r, k, v)
    \/ \E r \in Refs(heap) : Calls < MatchCalls /\ Call_WithRetryable(r, TRUE)
    \/ \E r \in Refs(heap), c \in MatchStatus : Calls < MatchCalls /\ Call_WithStatusCode(r, c)
    \/ \E b \in Refs(heap) : Call_Is(Len(heap), b)

SpecMatch == InitLogging /\ [][NextMatch]_vars

(***************************************************************************)
(* C7.  For two v1 Managed Errors a and b, a.Is(b) is true exactly when    *)
(* a.Type = b.Type and a.Code = b.Code, whatever the message, details,     *)
(* context, retryable, statusCode and cause of either; so the relation is  *)
(* reflexive, symmetric and transitive over Managed Errors.                *)
(***************************************************************************)
C7_Same(a, b) == heap[a].Type = heap[b].Type /\ heap[a].Code = heap[b].Code

C7_Managed == {r \in Refs(heap) : IsV1(r)}

C7_LooseEquivalence ==
    /\ \A a \in C7_Managed, b \in C7_Managed :
          V1_ManagedError_Is(heap, a, b) <=> C7_Same(a, b)
    /\ \A a \in C7_Managed : V1_ManagedError_Is(heap, a, a)
    /\ \A a \in C7_Managed, b \in C7_Managed :
          V1_ManagedError_Is(heap, a, b) => V1_ManagedError_Is(heap, b, a)
    /\ \A a \in C7_Managed, b \in C7_Managed, c \in C7_Managed :
          (V1_ManagedError_Is(heap, a, b) /\ V1_ManagedError_Is(heap, b, c))
             => V1_ManagedError_Is(heap, a, c)
    /\ (ret.call.op = "Is" /\ IsV1(ret.call.target))
          => (ret.val <=> C7_Same(ret.call.recv, ret.call.target))

\* a.Is(b) answered true for two distinct errors of one kind and code with
\* different messages and causes, one of them changed by a mutator, a third
\* error of that kind and code being there as well
C7_Witness ==
    /\ ret.call.op = "Is"
    /\ ret.call.recv # ret.call.target
    /\ IsV1(ret.call.target)
    /\ heap[ret.call.recv].Message # heap[ret.call.target].Message
    /\ heap[ret.call.recv].Cause # heap[ret.call.target].Cause
    /\ Calls = 1
    /\ Len(hist[ret.call.recv]) = 2
    /\ \E c \in C7_Managed :
          c \notin {ret.call.recv, ret.call.target} /\ C7_Same(c, ret.call.target)
    /\ ret.val = TRUE

(***************************************************************************)
(* SpecCtor: the four constructors, over kinds inside and outside the      *)
(* declared ones, empty and non-empty codes and messages, and causes that  *)
(* are nil, opaque or managed, themselves changed by a mutator or not.     *)
(***************************************************************************)
CtorSimpleArgs == {<<ValidationError, <<"m">>>>, <<ExternalError, <<>>>>, <<7, <<"n">>>>}
CtorV1Args == {<<V1_ValidationError, <<"c">>, <<"m">>>>,
               <<V1_ExternalError, <<>>, <<"n">>>>,
               <<<<"x">>, <<"d">>, <<>>>>}

NextCtor ==
    \/ \E s \in PlainTexts : Len(heap) < CtorObjs /\ Call_errors_New(s)
    \/ \E a \in CtorSimpleArgs : Len(heap) < CtorObjs /\ Call_New(a[1], a[2])
    \/ \E c \in Refs(heap) \cup {nil}, a \in CtorSimpleArgs :
          Len(heap) < CtorObjs /\ Call_Wrap(c, a[1], a[2])
    \/ \E a \in CtorV1Args : Len(heap) < CtorObjs /\ Call_NewError(a[1], a[2], a[3])
    \/ \E c \in Refs(heap) \cup {nil}, a \in CtorV1Args :
          Len(heap) < CtorObjs /\ Call_NewErrorWithCause(a[1], a[2], a[3], c)
    \/ \E r \in Refs(heap), k \in SimpleKeys, v \in SimpleValues : Call_WithContext(r, k, v)
    \/ \E r \in Refs(heap) : Call_WithRetryable(r, TRUE)

SpecCtor == Init /\ [][NextCtor]_vars

(***************************************************************************)
(* C10.  New / NewError return an error whose kind, message (and code)     *)
(* are the arguments, whose context is an empty mapping, whose cause is    *)
(* absent and, in v1, whose retryable is false, details empty and          *)
(* statusCode 0; Wrap / NewErrorWithCause return the same state except     *)
(* that the cause is the error given.                                      *)
(***************************************************************************)
C10_EmptyMapping(c) == ~c.isNil /\ DOMAIN c.kv = {}

C10_Simple(o, call, cause) ==
    /\ o.tag = T_ManagedError
    /\ o.Type = call.errorType
    /\ o.Message = call.message
    /\ o.Cause = cause
    /\ C10_EmptyMapping(o.Context)

C10_V1(o, call, cause) ==
    /\ o.tag = T_V1ManagedError
    /\ o.Type = call.errType
    /\ o.Code = call.code
    /\ o.Message = call.message
    /\ o.Cause = cause
    /\ C10_EmptyMapping(o.Context)
    /\ o.Retryable = FALSE
    /\ o.Details = <<>>
    /\ o.StatusCode = 0

C10_ConstructorPostState ==
    /\ ret.call.op = "New" => C10_Simple(heap[ret.val], ret.call, nil)
    /\ ret.call.op = "Wrap" => C10_Simple(heap[ret.val], ret.call, ret.call.err)
    /\ ret.call.op = "NewError" => C10_V1(heap[ret.val], ret.call, nil)
    /\ ret.call.op = "NewErrorWithCause" => C10_V1(heap[ret.val], ret.call, ret.call.cause)
    /\ ret.call.op \in {"New", "Wrap", "NewError", "NewErrorWithCause"}
          => (~ret.panic /\ ret.val = Len(heap))

\* New returned, for an empty message, while the error built before it is a v1
\* error that was marked retryable
C10_Witness ==
    /\ ret.call.op = "New"
    /\ ret.call.message = <<>>
    /\ ret.val = 2
    /\ IsV1(1)
    /\ heap[1].Retryable

(***************************************************************************)
(* SpecUnwrap: errors of both variants built with and without a cause      *)
(* (nil, opaque or managed), each changed by the mutators any number of    *)
(* times in the fluent chain that follows its construction, and unwrapped. *)
(***************************************************************************)
NextUnwrap ==
    \/ \E s \in PlainTexts : Len(heap) < UnwrapObjs /\ Call_errors_New(s)
    \/ Len(heap) < UnwrapObjs /\ Call_New(InternalError, <<"m">>)
    \/ \E c \in Refs(heap) \cup {nil} :
          Len(heap) < UnwrapObjs /\ Call_Wrap(c, InternalError, <<"m">>)
    \/ Len(heap) < UnwrapObjs /\ Call_NewError(V1_SystemError, <<"c">>, <<"m">>)
    \/ \E c \in Refs(heap) \cup {nil} :
          Len(heap) < UnwrapObjs
          /\ Call_NewErrorWithCause(V1_SystemError, <<"c">>, <<"m">>, c)
    \/ \E k \in SimpleKeys, v \in SimpleValues : Call_WithContext(Len(heap), k, v)
    \/ Call_WithDetails(Len(heap), <<"d">>)
    \/ \E k \in ChainKeys, v \in ChainValues : Call_V1_WithContext(Len(heap), k, v)
    \/ Call_WithRetryable(Len(heap), TRUE)
    \/ \E c \in MatchStatus : Call_WithStatusCode(Len(heap), c)
    \/ \E r \in Refs(heap) : Call_Unwrap(r)

SpecUnwrap == Init /\ [][NextUnwrap]_vars

(***************************************************************************)
(* C3.  Unwrap() of an error built by Wrap(c, k, m) (simple) or            *)
(* NewErrorWithCause(k, code, m, c) (v1) is c itself, for every cause c    *)
(* and after any sequence of mutator calls; Unwrap() of an error built by  *)
(* New / NewError is nil.                                                  *)
(***************************************************************************)
C3_Managed(r) == IsSimple(r) \/ IsV1(r)

C3_UnwrapRoundTrip ==
    /\ \A r \in Refs(heap) : C3_Managed(r) => Unwrap(heap[r]) = CauseGiven(r)
    /\ \A r \in Refs(heap) :
          (C3_Managed(r) /\ hist[r][1].op \in {"New", "NewError"}) => Unwrap(heap[r]) = nil
    /\ (ret.call.op = "Unwrap" /\ C3_Managed(ret.call.recv))
          => ret.val = CauseGiven(ret.call.recv)

\* Unwrap returned the cause, a managed error, of a v1 error on which every
\* mutator has acted
C3_Witness ==
    /\ ret.call.op = "Unwrap"
    /\ IsV1(ret.call.recv)
    /\ hist[ret.call.recv][1].op = "NewErrorWithCause"
    /\ C3_Managed(ret.val)
    /\ ret.val = hist[ret.call.recv][1].cause
    /\ heap[ret.call.recv].Details # <<>>
    /\ heap[ret.call.recv].Retryable
    /\ heap[ret.call.recv].StatusCode # 0
    /\ DOMAIN heap[ret.call.recv].Context.kv # {}

(***************************************************************************)
(* SpecContext: WithContext calls on errors of both variants, over two     *)
(* keys, one of them written with two values, and the lookups.  The calls  *)
(* made on each error are logged.                                          *)
(***************************************************************************)
ContextWrites == {<<<<"a">>, 1>>, <<<<"a">>, 2>>, <<<<"b">>, 1>>}
ContextKeys == {<<"a">>, <<"b">>}

\* v1 stores strings, the simple variant any value
ContextV1Value(n) == IF n = 1 THEN <<"v">> ELSE <<"w">>

NextContext ==
    \/ Len(heap) < ContextObjs /\ Call_New(InternalError, <<"m">>)
    \/ Len(heap) < ContextObjs /\ Call_NewError(V1_SystemError, <<"c">>, <<"m">>)
    \/ \E r \in Refs(heap), w \in ContextWrites :
          Calls < ContextCalls /\ Call_WithContext(r, w[1], GoInt(w[2]))
    \/ \E r \in Refs(heap), w \in ContextWrites :
          Calls < ContextCalls /\ Call_V1_WithContext(r, w[1], ContextV1Value(w[2]))
    \/ \E r \in Refs(heap), k \in ContextKeys : Call_GetContext(r, k)
    \/ \E r \in Refs(heap) : Call_V1_GetContext(r)

SpecContext == InitLogging /\ [][NextContext]_vars

(***************************************************************************)
(* C4.  After any sequence of WithContext(key, value) calls on one Managed *)
(* Error, the context holds exactly one entry for each key ever written,   *)
(* with the value of the most recent call for that key, and no entry for   *)
(* a key never written (GetContext(key) reports "not exists"); the order   *)
(* in which distinct keys were written does not affect the mapping.        *)
(***************************************************************************)
\* the WithContext calls logged for r, oldest first
C4_Writes(r) == SelectSeq(Tail(hist[r]), LAMBDA c : c.op = "WithContext")

C4_Written(r) == {C4_Writes(r)[i].key : i \in 1..Len(C4_Writes(r))}

\* the position of the most recent write of key k
C4_Latest(r, k) ==
    CHOOSE i \in 1..Len(C4_Writes(r)) :
        /\ C4_Writes(r)[i].key = k
        /\ \A j \in (i + 1)..Len(C4_Writes(r)) : C4_Writes(r)[j].key # k

C4_LastWritten(r) == [k \in C4_Written(r) |-> C4_Writes(r)[C4_Latest(r, k)].value]

C4_LastWriteWins ==
    /\ \A r \in Refs(heap) :
          /\ ~heap[r].Context.isNil
          /\ heap[r].Context.kv = C4_LastWritten(r)
    /\ \A r \in Refs(heap), k \in ContextKeys :
          IsSimple(r) =>
             IF k \in C4_Written(r)
             THEN GetContext(heap[r], k) = [value |-> C4_LastWritten(r)[k], exists |-> TRUE]
             ELSE ~GetContext(heap[r], k).exists
    /\ \A r \in Refs(heap), q \in Refs(heap) :
          (heap[r].tag = heap[q].tag /\ C4_LastWritten(r) = C4_LastWritten(q))
             => heap[r].Context = heap[q].Context
    /\ (ret.call.op = "GetContext" /\ ret.call.key \notin C4_Written(ret.call.recv))
          => ~ret.val.exists
    /\ (ret.call.op = "GetContext" /\ ret.call.key \in C4_Written(ret.call.recv))
          => (ret.val.exists /\ ret.val.value = C4_LastWritten(ret.call.recv)[ret.call.key])
    /\ (ret.call.op = "v1.GetContext" /\ IsV1(ret.call.err))
          => ret.val.kv = C4_LastWritten(ret.call.err)

\* GetContext returned the second value written for a key that was written
\* twice, the other key having been written in between
C4_Witness ==
    /\ ret.call.op = "GetContext"
    /\ ret.val = [value |-> GoInt(2), exists |-> TRUE]
    /\ Len(C4_Writes(ret.call.recv)) = 3
    /\ C4_Writes(ret.call.recv)[1].key = ret.call.key
    /\ C4_Writes(ret.call.recv)[1].value = GoInt(1)
    /\ C4_Writes(ret.call.recv)[2].key # ret.call.key
    /\ C4_Writes(ret.call.recv)[3].key = ret.call.key
    /\ DOMAIN heap[ret.call.recv].Context.kv = ContextKeys

(***************************************************************************)
(* SpecLookup: errors of both variants built by either constructor, each   *)
(* changed by the mutators any number of times in the fluent chain that    *)
(* follows its construction, and their contexts looked up.                 *)
(***************************************************************************)
NextLookup ==
    \/ Len(heap) < LookupObjs /\ Call_New(InternalError, <<"m">>)
    \/ \E c \in Refs(heap) \cup {nil} :
          Len(heap) < LookupObjs /\ Call_Wrap(c, InternalError, <<"m">>)
    \/ Len(heap) < LookupObjs /\ Call_NewError(V1_SystemError, <<"c">>, <<"m">>)
    \/ \E c \in Refs(heap) \cup {nil} :
          Len(heap) < LookupObjs
          /\ Call_NewErrorWithCause(V1_SystemError, <<"c">>, <<"m">>, c)
    \/ \E k \in SimpleKeys, v \in SimpleValues : Call_WithContext(Len(heap), k, v)
    \/ Call_WithDetails(Len(heap), <<"d">>)
    \/ \E k \in ChainKeys, v \in ChainValues : Call_V1_WithContext(Len(heap), k, v)
    \/ Call_WithRetryable(Len(heap), TRUE)
    \/ \E c \in MatchStatus : Call_WithStatusCode(Len(heap), c)
    \/ \E r \in Refs(heap), k \in SimpleKeys : Call_GetContext(r, k)
    \/ \E r \in Refs(heap) : Call_V1_GetContext(r)

SpecLookup == Init /\ [][NextLookup]_vars

(***************************************************************************)
(* C11.  Every Managed Error built by a constructor of either variant and  *)
(* changed by any sequence of mutator calls has an initialized (non-nil)   *)
(* context map; no WithContext or GetContext call on it fails, and the     *)
(* package-level GetContext of v1 returns a non-nil map for it.            *)
(***************************************************************************)
C11_ContextInitialized ==
    /\ \A r \in Refs(heap) : ~heap[r].Context.isNil
    /\ ~ret.panic
    /\ (ret.call.op = "v1.GetContext" /\ IsV1(ret.call.err)) => ~ret.val.isNil

\* GetContext returned the non-nil, empty map of a v1 error that was built
\* around a cause and changed by a mutator other than WithContext
C11_Witness ==
    /\ ret.call.op = "v1.GetContext"
    /\ IsV1(ret.call.err)
    /\ hist[ret.call.err][1].op = "NewErrorWithCause"
    /\ heap[ret.call.err].Cause # nil
    /\ heap[ret.call.err].Details # <<>>
    /\ ret.val = MakeMap

(***************************************************************************)
(* C12.  As claimed: every Managed Error a constructor (New, Wrap,         *)
(* NewError, NewErrorWithCause) produces has a non-empty message, for      *)
(* every argument the constructors accept.                                 *)
(***************************************************************************)
C12_Constructed == {r \in Refs(heap) : IsSimple(r) \/ IsV1(r)}

C12_MessageNeverEmpty ==
    \A r \in C12_Constructed : heap[r].Message # <<>>

(***************************************************************************)
(* C12, amended.  The message of a Managed Error a constructor produces is *)
(* empty exactly when the message argument was empty: a non-empty argument *)
(* gives a non-empty message, and an empty argument is accepted and stored *)
(* as given.                                                               *)
(***************************************************************************)
C12_MessageAsGiven ==
    /\ \A r \in C12_Constructed :
          (heap[r].Message = <<>>) <=> (hist[r][1].message = <<>>)
    /\ (ret.call.op \in {"New", "Wrap", "NewError", "NewErrorWithCause"}
           /\ ret.call.message # <<>>) => heap[ret.val].Message # <<>>

\* Wrap returned an error for a non-empty message and a cause whose own
\* message is empty
C12_Witness ==
    /\ ret.call.op = "Wrap"
    /\ ret.call.message # <<>>
    /\ ret.call.err \in C12_Constructed
    /\ heap[ret.call.err].Message = <<>>
    /\ heap[ret.val].Message # <<>>

(***************************************************************************)
(* SpecLiteral: Managed Errors of both variants built by the cause-less    *)
(* constructors and as struct literals (whose context map is nil), with    *)
(* every mutator called on them.                                           *)
(***************************************************************************)
NextLiteral ==
    \/ Len(heap) < LiteralObjs /\ Call_New(InternalError, <<"m">>)
    \/ Len(heap) < LiteralObjs /\ Call_Literal(InternalError, <<"m">>)
    \/ Len(heap) < LiteralObjs /\ Call_NewError(V1_SystemError, <<"c">>, <<"m">>)
    \/ Len(heap) < LiteralObjs /\ Call_V1_Literal(V1_SystemError, <<"c">>, <<"m">>)
    \/ \E r \in Refs(heap), k \in SimpleKeys, v \in SimpleValues : Call_WithContext(r, k, v)
    \/ \E r \in Refs(heap) : Call_WithDetails(r, <<"d">>)
    \/ \E r \in Refs(heap), k \in ChainKeys, v \in ChainValues : Call_V1_WithContext(r, k, v)
    \/ \E r \in Refs(heap), b \in BOOLEAN : Call_WithRetryable(r, b)
    \/ \E r \in Refs(heap), c \in MatchStatus : Call_WithStatusCode(r, c)

SpecLiteral == Init /\ [][NextLiteral]_vars

(***************************************************************************)
(* C13.  Every mutator (WithContext, WithDetails, WithRetryable,           *)
(* WithStatusCode) returns the instance it was called on and never fails,  *)
(* for every Managed Error value of either variant, one whose context map  *)
(* is nil included.                                                        *)
(***************************************************************************)
C13_MutatorsReturnReceiver ==
    ret.call.op \in {"WithContext", "WithDetails", "WithRetryable", "WithStatusCode"}
       => (~ret.panic /\ ret.val = ret.call.recv)

(***************************************************************************)
(* SpecMarshal: v1 errors with empty and non-empty codes, with and without *)
(* a cause, changed by the setters of the optional fields in the chain     *)
(* that follows construction, and serialized.                              *)
(***************************************************************************)
MarshalArgs == {<<V1_ValidationError, <<"c">>, <<"m">>>>,
                <<V1_SystemError, <<>>, <<"m">>>>}

NextMarshal ==
    \/ \E s \in PlainTexts : Len(heap) < MarshalObjs /\ Call_errors_New(s)
    \/ \E a \in MarshalArgs : Len(heap) < MarshalObjs /\ Call_NewError(a[1], a[2], a[3])
    \/ \E c \in Refs(heap) :
          Len(heap) < MarshalObjs
          /\ Call_NewErrorWithCause(V1_ValidationError, <<"c">>, <<"m">>, c)
    \/ Call_WithDetails(Len(heap), <<"d">>)
    \/ \E k \in ChainKeys, v \in ChainValues : Call_V1_WithContext(Len(heap), k, v)
    \/ \E c \in MatchStatus : Call_WithStatusCode(Len(heap), c)
    \/ \E r \in Refs(heap) : Call_Marshal(r)

SpecMarshal == Init /\ [][NextMarshal]_vars

\* the keys of a serialized record
C14_Keys(rec) == {rec[i].key : i \in 1..Len(rec)}

(***************************************************************************)
(* C14.  As claimed: the record serialized for a v1 Managed Error never    *)
(* holds the cause, and holds none of the optional fields code, details,   *)
(* context, statusCode when that field is empty or unset.                  *)
(***************************************************************************)
C14_OmitsEmptyOptionals ==
    ret.call.op = "json.Marshal" =>
       LET e == heap[ret.call.v]
           keys == C14_Keys(ret.val)
       IN /\ \A i \in 1..Len(ret.val) : ret.val[i].field # "Cause"
          /\ e.Code = <<>> => "code" \notin keys
          /\ e.Details = <<>> => "details" \notin keys
          /\ DOMAIN e.Context.kv = {} => "context" \notin keys
          /\ e.StatusCode = 0 => "status_code" \notin keys

(***************************************************************************)
(* C14, amended.  The record never holds the cause; details, context and   *)
(* statusCode are in it exactly when they are non-empty / set; code is     *)
(* always in it, as the empty string when the code is empty.               *)
(***************************************************************************)
C14_Serialization ==
    ret.call.op = "json.Marshal" =>
       LET e == heap[ret.call.v]
           keys == C14_Keys(ret.val)
       IN /\ \A i \in 1..Len(ret.val) : ret.val[i].field # "Cause"
          /\ "details" \in keys <=> e.Details # <<>>
          /\ "context" \in keys <=> DOMAIN e.Context.kv # {}
          /\ "status_code" \in keys <=> e.StatusCode # 0
          /\ "code" \in keys
          /\ \A i \in 1..Len(ret.val) : ret.val[i].key = "code" => ret.val[i].value = e.Code

\* an error with a cause, an empty optional field and a set one was serialized
C14_Witness ==
    /\ ret.call.op = "json.Marshal"
    /\ heap[ret.call.v].Cause # nil
    /\ heap[ret.call.v].Details = <<>>
    /\ heap[ret.call.v].StatusCode # 0
    /\ "status_code" \in C14_Keys(ret.val)

(***************************************************************************)
(* SpecRender: chains of three and more errors in the simple variant, with *)
(* opaque and managed errors at the end of the chain, rendered.            *)
(***************************************************************************)
RenderTexts == {<<"q">>}
RenderArgs == {<<InternalError, <<"m">>>>, <<InternalError, <<"k">>>>}

NextRender ==
    \/ \E s \in RenderTexts : Len(heap) < RenderObjs /\ Call_errors_New(s)
    \/ \E a \in RenderArgs : Len(heap) < RenderObjs /\ Call_New(a[1], a[2])
    \/ \E c \in Refs(heap), a \in RenderArgs :
          Len(heap) < RenderObjs /\ Call_Wrap(c, a[1], a[2])
    \/ \E r \in Refs(heap) : Call_Error(r)

SpecRender == Init /\ [][NextRender]_vars

\* t occurs in s
C15_Contains(s, t) ==
    \E i \in 0..(Len(s) - Len(t)) : SubSeq(s, i + 1, i + Len(t)) = t

\* a is a simple Managed Error whose cause is a simple Managed Error with a cause
C15_TwoDeep(a) ==
    /\ IsSimple(a)
    /\ IsSimple(heap[a].Cause)
    /\ heap[heap[a].Cause].Cause # nil

\* the text of the error two levels below a
C15_Deep(a) == Error(heap, heap[heap[a].Cause].Cause)

\* "[" kind "] " message, of the arguments r was constructed with
C15_Head(r) ==
    <<"[">> \o C1_Name(hist[r][1].errorType) \o <<"]", " ">> \o hist[r][1].message

\* what a one-level rendering of a would show: a's and its cause's own kind and message
C15_OneLevel(a) == C15_Head(a) \o <<":", " ">> \o C15_Head(heap[a].Cause)

(***************************************************************************)
(* C15.  As claimed: for a simple Managed Error A whose cause is a Managed *)
(* Error B whose cause is C, A.Error() does not contain C's text; only one *)
(* level of cause text is rendered.  (Stated for a text of C that is not   *)
(* already part of the kinds and messages of A and B.)                     *)
(***************************************************************************)
C15_OneLevelOnly ==
    /\ \A a \in Refs(heap) :
          (C15_TwoDeep(a) /\ ~C15_Contains(C15_OneLevel(a), C15_Deep(a)))
             => ~C15_Contains(Error(heap, a), C15_Deep(a))
    /\ (ret.call.op = "Error" /\ C15_TwoDeep(ret.call.recv)
           /\ ~C15_Contains(C15_OneLevel(ret.call.recv), C15_Deep(ret.call.recv)))
          => ~C15_Contains(ret.val, C15_Deep(ret.call.recv))

(***************************************************************************)
(* C15, amended.  The simple variant renders the whole chain: for A whose  *)
(* cause is a Managed Error B whose cause is C, A.Error() is               *)
(* "[" kindA "] " msgA ": [" kindB "] " msgB ": " C.Error(), so it         *)
(* contains C's text, every level of the chain being rendered.             *)
(***************************************************************************)
C15_Expected(a) ==
    C15_OneLevel(a) \o <<":", " ">> \o C15_Deep(a)

C15_WholeChainRendered ==
    /\ \A a \in Refs(heap) :
          C15_TwoDeep(a) =>
             /\ Error(heap, a) = C15_Expected(a)
             /\ C15_Contains(Error(heap, a), C15_Deep(a))
    /\ (ret.call.op = "Error" /\ C15_TwoDeep(ret.call.recv))
          => ret.val = C15_Expected(ret.call.recv)

\* Error() was called on an error whose cause's cause is an opaque error; its
\* text, found in no kind name or message, is in the rendering
C15_Witness ==
    /\ ret.call.op = "Error"
    /\ C15_TwoDeep(ret.call.recv)
    /\ heap[heap[heap[ret.call.recv].Cause].Cause].tag = T_errorString
    /\ heap[ret.call.recv].Message # heap[heap[ret.call.recv].Cause].Message
    /\ C15_Contains(ret.val, <<"q">>)

(***************************************************************************)
(* SpecKind: chains mixing opaque errors, v1 Wrap layers and Managed       *)
(* Errors of two kinds in each variant, asked for their kind.              *)
(***************************************************************************)
KindSimple == {ValidationError, InternalError}
KindV1 == {V1_ValidationError, V1_SystemError}

NextKind ==
    \/ \E s \in PlainTexts : Len(heap) < KindObjs /\ Call_errors_New(s)
    \/ Len(heap) < KindObjs /\ Call_New(ValidationError, <<"m">>)
    \/ \E c \in Refs(heap) : Len(heap) < KindObjs /\ Call_Wrap(c, InternalError, <<"m">>)
    \/ \E t \in KindV1 : Len(heap) < KindObjs /\ Call_NewError(t, <<"c">>, <<"m">>)
    \/ \E c \in Refs(heap), t \in KindV1 :
          Len(heap) < KindObjs /\ Call_NewErrorWithCause(t, <<"c">>, <<"m">>, c)
    \/ \E e \in Refs(heap) : Len(heap) < KindObjs /\ Call_V1_Wrap(e, <<"w">>)
    \/ \E r \in Refs(heap), k \in KindSimple : Call_IsType(r, k)
    \/ \E e \in Refs(heap) \cup {nil}, t \in KindV1 : Call_V1_IsType(e, t)

SpecKind == Init /\ [][NextKind]_vars

(***************************************************************************)
(* C16.  The method IsType(k) of the simple variant is true exactly when   *)
(* the receiver's own kind is k, whatever its cause; the function          *)
(* IsType(err, k) of v1 is false when the chain of err holds no Managed    *)
(* Error and otherwise true exactly when the first Managed Error of the    *)
(* chain has kind k: a Managed Error of kind K around a Managed Error of   *)
(* another kind K' answers true for K and false for K'.                    *)
(***************************************************************************)
C16_Simple(r, k) == hist[r][1].errorType = k

C16_V1(err, k) ==
    IF ManagedIn(err) = <<>> THEN FALSE ELSE hist[Head(ManagedIn(err))][1].errType = k

C16_KindQueries ==
    /\ \A r \in Refs(heap), k \in KindSimple :
          IsSimple(r) => (IsType(heap[r], k) <=> C16_Simple(r, k))
    /\ \A err \in Refs(heap) \cup {nil}, k \in KindV1 :
          V1_IsType(heap, err, k) <=> C16_V1(err, k)
    /\ ret.call.op = "IsType" => (ret.val <=> C16_Simple(ret.call.recv, ret.call.errorType))
    /\ ret.call.op = "v1.IsType" => (ret.val <=> C16_V1(ret.call.err, ret.call.errType))

\* IsType(err, K') answered false for a wrapper around a Managed Error of kind K
\* whose cause is a Managed Error of kind K'
C16_Witness ==
    /\ ret.call.op = "v1.IsType"
    /\ ret.call.err # nil
    /\ ~IsV1(ret.call.err)
    /\ Len(ManagedIn(ret.call.err)) = 2
    /\ heap[ManagedIn(ret.call.err)[2]].Type = ret.call.errType
    /\ heap[ManagedIn(ret.call.err)[1]].Type # ret.call.errType
    /\ ret.val = FALSE

(***************************************************************************)
(* SpecAcyclic: every constructor and wrapping helper of both variants,    *)
(* around any error built before, every mutator in the chain that follows  *)
(* construction, and Unwrap.                                               *)
(***************************************************************************)
NextAcyclic ==
    \/ \E s \in PlainTexts : Len(heap) < AcyclicObjs /\ Call_errors_New(s)
    \/ Len(heap) < AcyclicObjs /\ Call_New(InternalError, <<"m">>)
    \/ \E c \in Refs(heap) : Len(heap) < AcyclicObjs /\ Call_Wrap(c, InternalError, <<"m">>)
    \/ Len(heap) < AcyclicObjs /\ Call_NewError(V1_SystemError, <<"c">>, <<"m">>)
    \/ \E c \in Refs(heap) :
          Len(heap) < AcyclicObjs
          /\ Call_NewErrorWithCause(V1_SystemError, <<"c">>, <<"m">>, c)
    \/ \E e \in Refs(heap) : Len(heap) < AcyclicObjs /\ Call_V1_Wrap(e, <<"w">>)
    \/ \E e \in Refs(heap), fa \in ChainTemplates :
          Len(heap) < AcyclicObjs /\ Call_Wrapf(e, fa[1], fa[2])
    \/ \E k \in SimpleKeys, v \in SimpleValues : Call_WithContext(Len(heap), k, v)
    \/ Call_WithDetails(Len(heap), <<"d">>)
    \/ \E k \in ChainKeys, v \in ChainValues : Call_V1_WithContext(Len(heap), k, v)
    \/ Call_WithRetryable(Len(heap), TRUE)
    \/ \E c \in MatchStatus : Call_WithStatusCode(Len(heap), c)
    \/ \E r \in Refs(heap) : Call_Unwrap(r)

SpecAcyclic == Init /\ [][NextAcyclic]_vars

\* the error reached from r by n calls of Unwrap, nil once the chain has ended
RECURSIVE C17_Walk(_, _)
C17_Walk(r, n) ==
    IF n = 0 \/ r = nil THEN r
    ELSE IF HasUnwrap(heap[r]) THEN C17_Walk(Unwrap(heap[r]), n - 1)
    ELSE nil

(***************************************************************************)
(* C17.  In every state reached with the constructors, mutators and        *)
(* wrapping helpers, no error is met again on its own cause chain, and     *)
(* every chain walk by Unwrap ends, after at most as many steps as there   *)
(* are errors, at an error with no cause.                                  *)
(***************************************************************************)
C17_Acyclic ==
    /\ \A r \in Refs(heap), n \in 1..Len(heap) : C17_Walk(r, n) # r
    /\ \A r \in Refs(heap) : C17_Walk(r, Len(heap)) = nil
    /\ ret.call.op = "Unwrap" => ret.val # ret.call.recv

\* Unwrap returned the error a wrapping helper was given, a Managed Error that
\* a mutator had changed, and the walk ends one step further
C17_Witness ==
    /\ ret.call.op = "Unwrap"
    /\ heap[ret.call.recv].tag = T_wrapError
    /\ IsV1(ret.val)
    /\ heap[ret.val].Details # <<>>
    /\ C17_Walk(ret.call.recv, 1) = ret.val
    /\ C17_Walk(ret.call.recv, 2) = nil

(***************************************************************************)
(* SpecSetters: v1 errors with and without a cause, each setter called     *)
(* with two arguments and WithContext with two keys.  The calls made on    *)
(* each error are logged.                                                  *)
(***************************************************************************)
SetterDetails == {<<"d">>, <<"e">>}
SetterStatus == {400, 503}
SetterKeys == {<<"a">>, <<"b">>}

NextSetters ==
    \/ \E s \in PlainTexts : Len(heap) < SetterObjs /\ Call_errors_New(s)
    \/ Len(heap) < SetterObjs /\ Call_NewError(V1_BusinessError, <<"c">>, <<"m">>)
    \/ \E c \in Refs(heap) :
          Len(heap) < SetterObjs
          /\ Call_NewErrorWithCause(V1_SystemError, <<"d">>, <<"n">>, c)
    \/ \E r \in Refs(heap), d \in SetterDetails :
          Calls < SetterCalls /\ Call_WithDetails(r, d)
    \/ \E r \in Refs(heap), k \in SetterKeys, v \in ChainValues :
          Calls < SetterCalls /\ Call_V1_WithContext(r, k, v)
    \/ \E r \in Refs(heap), b \in BOOLEAN : Calls < SetterCalls /\ Call_WithRetryable(r, b)
    \/ \E r \in Refs(heap), c \in SetterStatus :
          Calls < SetterCalls /\ Call_WithStatusCode(r, c)

SpecSetters == InitLogging /\ [][NextSetters]_vars

\* the calls of the setter op logged for r, oldest first
C18_Calls(r, op) == SelectSeq(Tail(hist[r]), LAMBDA c : c.op = op)

\* the argument of the most recent call of the setter, or the default
C18_Details(r) ==
    IF C18_Calls(r, "WithDetails") = <<>> THEN <<>>
    ELSE C18_Calls(r, "WithDetails")[Len(C18_Calls(r, "WithDetails"))].details

C18_Retryable(r) ==
    IF C18_Calls(r, "WithRetryable") = <<>> THEN FALSE
    ELSE C18_Calls(r, "WithRetryable")[Len(C18_Calls(r, "WithRetryable"))].retryable

C18_StatusCode(r) ==
    IF C18_Calls(r, "WithStatusCode") = <<>> THEN 0
    ELSE C18_Calls(r, "WithStatusCode")[Len(C18_Calls(r, "WithStatusCode"))].code

(***************************************************************************)
(* C18.  v1: each mutator changes its own field only (WithContext the      *)
(* entry of its key only).  After any sequence of mutator calls details,   *)
(* retryable and statusCode each equal the argument of the most recent     *)
(* call of their setter, or the construction default when it was never     *)
(* called; the context holds the entries written; kind, code, message and  *)
(* cause are as constructed.                                               *)
(***************************************************************************)
C18_SetterFrame ==
    /\ \A r \in Refs(heap) :
          IsV1(r) =>
             /\ heap[r].Details = C18_Details(r)
             /\ heap[r].Retryable = C18_Retryable(r)
             /\ heap[r].StatusCode = C18_StatusCode(r)
             /\ heap[r].Context.kv = C4_LastWritten(r)
             /\ heap[r].Type = hist[r][1].errType
             /\ heap[r].Code = hist[r][1].code
             /\ heap[r].Message = hist[r][1].message
             /\ heap[r].Cause = CauseGiven(r)
    /\ \A r \in Refs(heap) : ~IsV1(r) => (Len(hist[r]) = 1 /\ heap[r] = errorString(hist[r][1].text))

\* WithDetails was called a second time, with another argument, on an error
\* that has a cause
C18_Witness ==
    /\ ret.call.op = "WithDetails"
    /\ Len(C18_Calls(ret.call.recv, "WithDetails")) = 2
    /\ C18_Calls(ret.call.recv, "WithDetails")[1].details # ret.call.details
    /\ heap[ret.call.recv].Cause # nil
    /\ heap[ret.call.recv].Details = ret.call.details

(***************************************************************************)
(* SpecTarget: the chains of BuildChain, and the Is method of each v1      *)
(* Managed Error asked about every error and about nil.                    *)
(***************************************************************************)
NextTarget ==
    \/ BuildChain
    \/ \E e \in Refs(heap), t \in Refs(heap) \cup {nil} : Call_Is(e, t)

SpecTarget == Init /\ [][NextTarget]_vars

(***************************************************************************)
(* C19.  v1: e.Is(target) is false for a nil target.  When the chain of    *)
(* target holds a Managed Error, T being the first one met (target itself  *)
(* or under Wrap / Wrapf / NewErrorWithCause layers), e.Is(target) is      *)
(* e.Type = T.Type and e.Code = T.Code and the cause of e plays no part.   *)
(* Only when the chain of target holds no Managed Error does e.Is(target)  *)
(* say whether target is met on the cause chain of e.                      *)
(***************************************************************************)
C19_Expected(e, target) ==
    IF target = nil THEN FALSE
    ELSE IF ManagedIn(target) # <<>>
    THEN LET T == Head(ManagedIn(target))
         IN heap[e].Type = heap[T].Type /\ heap[e].Code = heap[T].Code
    ELSE InChain(target, CauseGiven(e))

C19_TargetResolution ==
    /\ \A e \in Refs(heap), target \in Refs(heap) \cup {nil} :
          IsV1(e) => (V1_ManagedError_Is(heap, e, target) <=> C19_Expected(e, target))
    /\ ret.call.op = "Is" => (ret.val <=> C19_Expected(ret.call.recv, ret.call.target))

\* e.Is(target) answered false although target is the cause of e: target is a
\* wrapper around a Managed Error of another kind or code
C19_Witness ==
    /\ ret.call.op = "Is"
    /\ ret.call.target # nil
    /\ ~IsV1(ret.call.target)
    /\ ManagedIn(ret.call.target) # <<>>
    /\ heap[ret.call.recv].Cause = ret.call.target
    /\ ret.val = FALSE

====
